---- MODULE Spec2Model ----
(***************************************************************************)
(* Model of app.py, the Flask backend of the job analytics portal: the     *)
(* field extractors, the normalization pipeline, the lazily built          *)
(* process-wide table processed_df, the before_request hook that builds    *)
(* it, and the query endpoints that read it.                               *)
(*                                                                         *)
(* Encoding of pandas cells:                                               *)
(*   - a text cell (a Python str that the code scans or parses) is a tuple *)
(*     of one-character strings; the absent cell (NaN) is NaN;             *)
(*   - a numeric cell is <<n>>, the absent one is <<>> (NaNNum);           *)
(*   - a categorical string cell is a string, the absent one is "NaN",     *)
(*     the text read_csv itself turns into NaN.                            *)
(* A Python result "None" of an extractor is None (<<>>), an int n is <<n>>.*)
(***************************************************************************)
EXTENDS Integers, Sequences, FiniteSets, TLC

VARIABLES
    csv,            \* the input source job_descriptions.csv: [state, table]
    processed_df,   \* the global DataFrame (app.py line 15)
    pc,             \* per request thread: its position in the request
    df_raw,         \* per request thread: the local df_raw of the hook
    resp,           \* per request thread: the last response it produced
    nreq,           \* number of requests started so far
    reads,          \* history: number of pd.read_csv calls executed
    builds,         \* history: number of assignments to processed_df (line 77)
    everReadable,   \* history: the source has been readable at some time
    failedTrigger,  \* history: a hook found the source missing or unreadable
    fn_arg,         \* argument of the function under test (pure-function specs)
    fn_ret          \* its result: [done, value]

vars == <<csv, processed_df, pc, df_raw, resp, nreq, reads, builds,
          everReadable, failedTrigger, fn_arg, fn_ret>>

serverVars == <<csv, processed_df, pc, df_raw, resp, nreq, reads, builds,
                everReadable, failedTrigger>>

----------------------------------------------------------------------------
(* Bounds of the model *)

MaxLen == 4

----------------------------------------------------------------------------
(* Cells *)

NaN == <<"NaN">>

NaNNum == <<>>

NA == "NaN"

None == <<>>

isna(x) == x = NaN

Digits == <<"0", "1", "2", "3", "4", "5", "6", "7", "8", "9">>

Digit == {Digits[i] : i \in 1..Len(Digits)}

DigitVal(c) == (CHOOSE i \in 1..Len(Digits) : Digits[i] = c) - 1

Whitespace == {" "}

Max(S) == CHOOSE m \in S : \A n \in S : n <= m

Min(S) == CHOOSE m \in S : \A n \in S : m <= n

\* int(group) of a run of decimal digits
RECURSIVE ToInt(_)
ToInt(ds) ==
    IF ds = <<>> THEN 0
    ELSE 10 * ToInt(SubSeq(ds, 1, Len(ds) - 1)) + DigitVal(ds[Len(ds)])

\* last index of the longest run of characters of class cls that starts at
\* index i + 1 (i itself when the run is empty): what a greedy cls* consumes
RECURSIVE RunEnd(_, _, _)
RunEnd(s, i, cls) ==
    IF i + 1 <= Len(s) /\ s[i + 1] \in cls THEN RunEnd(s, i + 1, cls) ELSE i

\* the literal lit occurs in s at index i
Lit(s, i, lit) ==
    /\ i + Len(lit) - 1 <= Len(s)
    /\ \A n \in 1..Len(lit) : s[i + n - 1] = lit[n]

----------------------------------------------------------------------------
(* Field extractors *)

\* a variant for comparison: the pattern compiled with re.IGNORECASE
ExperienceGroupEndsIgnoreCase(s, i) ==
    IF s[i] \notin Digit THEN {}
    ELSE {j \in i..RunEnd(s, i, Digit) :
             \E k \in j..RunEnd(s, j, Whitespace) :
                 \E t \in {"t", "T"}, o \in {"o", "O"} : Lit(s, k + 1, <<t, o>>)}

\* r'(\d+)\s*to' anchored at index i: the ends j of group 1 for which the
\* rest of the pattern matches (\d+ gives back digits, \s* gives back blanks)
ExperienceGroupEnds(s, i) ==
    IF s[i] \notin Digit THEN {}
    ELSE {j \in i..RunEnd(s, i, Digit) :
             \E k \in j..RunEnd(s, j, Whitespace) : Lit(s, k + 1, <<"t", "o">>)}

\* re.search: the leftmost index at which the pattern matches, scanning
\* from index i; 0 when there is none
RECURSIVE ExperienceSearch(_, _)
ExperienceSearch(s, i) ==
    IF i > Len(s) THEN 0
    ELSE IF ExperienceGroupEnds(s, i) # {} THEN i
    ELSE ExperienceSearch(s, i + 1)

extract_min_experience(experience_str) ==
    IF isna(experience_str) THEN None
    ELSE LET i == ExperienceSearch(experience_str, 1)
         IN  IF i = 0 THEN None
             ELSE <<ToInt(SubSeq(experience_str, i,
                                 Max(ExperienceGroupEnds(experience_str, i))))>>

\* r'\$(\d+)K' anchored at index i
SalaryGroupEnds(s, i) ==
    IF ~(s[i] = "$" /\ i + 1 <= Len(s) /\ s[i + 1] \in Digit) THEN {}
    ELSE {j \in (i + 1)..RunEnd(s, i + 1, Digit) : Lit(s, j + 1, <<"K">>)}

RECURSIVE SalarySearch(_, _)
SalarySearch(s, i) ==
    IF i > Len(s) THEN 0
    ELSE IF SalaryGroupEnds(s, i) # {} THEN i
    ELSE SalarySearch(s, i + 1)

extract_min_salary(salary_str) ==
    IF isna(salary_str) THEN None
    ELSE LET i == SalarySearch(salary_str, 1)
         IN  IF i = 0 THEN None
             ELSE <<ToInt(SubSeq(salary_str, i + 1,
                                 Max(SalaryGroupEnds(salary_str, i)))) * 1000>>

----------------------------------------------------------------------------
(* Specification of the experience extractor alone *)

ExperienceAlphabet == {"1", "2", " ", "t", "o", "T", "O", "x"}

RECURSIVE StringsUpTo(_, _)
StringsUpTo(alphabet, n) ==
    IF n = 0 THEN {<<>>}
    ELSE LET shorter == StringsUpTo(alphabet, n - 1)
         IN  shorter \cup {Append(s, c) : s \in {t \in shorter : Len(t) = n - 1},
                                          c \in alphabet}

ExperienceInputs == {NaN} \cup StringsUpTo(ExperienceAlphabet, MaxLen)

Idle == [done |-> FALSE, value |-> <<>>]

ServerQuiet ==
    /\ csv = [state |-> "missing", table |-> <<>>]
    /\ processed_df = <<>>
    /\ pc = <<>>
    /\ df_raw = <<>>
    /\ resp = <<>>
    /\ nreq = 0
    /\ reads = 0
    /\ builds = 0
    /\ everReadable = FALSE
    /\ failedTrigger = FALSE

ExtractInit ==
    /\ ServerQuiet
    /\ fn_arg \in ExperienceInputs
    /\ fn_ret = Idle

ExtractCall ==
    /\ ~fn_ret.done
    /\ fn_ret' = [done |-> TRUE, value |-> extract_min_experience(fn_arg)]
    /\ UNCHANGED <<serverVars, fn_arg>>

SpecExtract == ExtractInit /\ [][ExtractCall]_vars

----------------------------------------------------------------------------
(* C6 *)

\* the pattern '<integer> to' occupies s from index i, its integer ending at
\* index j, the word being one of the spellings in tos
IntegerToAt(s, i, j, tos) ==
    /\ i <= j
    /\ \A n \in i..j : s[n] \in Digit
    /\ \E k \in j..Len(s) :
          /\ \A n \in (j + 1)..k : s[n] \in Whitespace
          /\ k + 2 <= Len(s)
          /\ <<s[k + 1], s[k + 2]>> \in tos

\* what the extractor must return on s when the word is matched as tos:
\* the integer of the first (leftmost, longest) match, absent without one
FirstIntegerTo(s, tos) ==
    LET M == {m \in (1..Len(s)) \X (1..Len(s)) : IntegerToAt(s, m[1], m[2], tos)}
    IN  IF M = {} THEN None
        ELSE LET i == Min({m[1] : m \in M})
                 j == Max({m[2] : m \in {n \in M : n[1] = i}})
             IN  <<ToInt(SubSeq(s, i, j))>>

AnyCaseTo == {<<t, o>> : t \in {"t", "T"}, o \in {"o", "O"}}

LowerCaseTo == {<<"t", "o">>}

\* C6 as claimed: extract_min_experience returns absent for an absent input
\* and otherwise the integer of the first match of '<integer> to', the word
\* matched case-insensitively ('to', 'To', 'TO'); absent without a match.
C6_CaseInsensitive ==
    fn_ret.done =>
        fn_ret.value = IF isna(fn_arg) THEN None
                       ELSE FirstIntegerTo(fn_arg, AnyCaseTo)

\* C6 amended: the same, the word matched case-sensitively: only the
\* lower-case 'to' matches, so '1 TO' and '1 To' yield absent.
C6_CaseSensitive ==
    fn_ret.done =>
        fn_ret.value = IF isna(fn_arg) THEN None
                       ELSE FirstIntegerTo(fn_arg, LowerCaseTo)

\* a two-digit integer directly followed by 'to' has been extracted
C6_Witness ==
    /\ fn_ret.done
    /\ fn_arg = <<"1", "2", "t", "o">>
    /\ fn_ret.value = <<12>>

----------------------------------------------------------------------------
(* Python results: a value returned, or an exception raised *)

Return(v) == [raised |-> FALSE, value |-> v]

Raise(e) == [raised |-> TRUE, value |-> e]

----------------------------------------------------------------------------
(* parse_company_profile *)

Q == "\""

\* str.replace(old, '"') for old = four quote characters: the occurrences
\* are replaced left to right, without overlap
RECURSIVE ReplaceFourQuotes(_)
ReplaceFourQuotes(s) ==
    IF s = <<>> THEN <<>>
    ELSE IF Lit(s, 1, <<Q, Q, Q, Q>>)
         THEN <<Q>> \o ReplaceFourQuotes(SubSeq(s, 5, Len(s)))
         ELSE <<s[1]>> \o ReplaceFourQuotes(SubSeq(s, 2, Len(s)))

\* s is a JSON string literal without escapes
IsJsonString(s) ==
    /\ Len(s) >= 2
    /\ s[1] = Q
    /\ s[Len(s)] = Q
    /\ \A n \in 2..(Len(s) - 1) : s[n] \notin {Q, "\\"}

\* s is a JSON integer
IsJsonInt(s) ==
    /\ Len(s) >= 1
    /\ \A n \in 1..Len(s) : s[n] \in Digit
    /\ Len(s) > 1 => s[1] # "0"

\* the index of the colon of a one-member object "key":"value"
MemberColons(s) ==
    {c \in 2..(Len(s) - 1) :
        /\ s[c] = ":"
        /\ IsJsonString(SubSeq(s, 1, c - 1))
        /\ IsJsonString(SubSeq(s, c + 1, Len(s)))}

Unquote(s) == SubSeq(s, 2, Len(s) - 1)

\* json.loads on the documents the model feeds it: null, an integer, a
\* string, the empty array, the empty object, an object of one string
\* member. Anything else among the model's inputs is not JSON at all.
\* A mapping is the set of its <<key, value>> pairs.
json_loads(s) ==
    IF s = <<"n", "u", "l", "l">> THEN Return([kind |-> "null", items |-> {}])
    ELSE IF IsJsonInt(s) THEN Return([kind |-> "int", items |-> {}])
    ELSE IF IsJsonString(s) THEN Return([kind |-> "str", items |-> {}])
    ELSE IF s = <<"[", "]">> THEN Return([kind |-> "list", items |-> {}])
    ELSE IF s = <<"{", "}">> THEN Return([kind |-> "dict", items |-> {}])
    ELSE IF Len(s) >= 2 /\ s[1] = "{" /\ s[Len(s)] = "}"
            /\ MemberColons(Unquote(s)) # {}
         THEN LET m == Unquote(s)
                  c == CHOOSE c \in MemberColons(m) : TRUE
              IN  Return([kind |-> "dict",
                          items |-> {<<Unquote(SubSeq(m, 1, c - 1)),
                                       Unquote(SubSeq(m, c + 1, Len(m)))>>}])
    ELSE Raise("JSONDecodeError")

EmptyDict == [kind |-> "dict", items |-> {}]

parse_company_profile(profile_str) ==
    IF isna(profile_str) THEN EmptyDict
    ELSE LET replaced == ReplaceFourQuotes(profile_str)
             cleaned_str == IF Len(replaced) >= 1 /\ replaced[1] = Q
                               /\ replaced[Len(replaced)] = Q
                            THEN SubSeq(replaced, 2, Len(replaced) - 1)
                            ELSE replaced
             loaded == json_loads(cleaned_str)
         IN  IF loaded.raised THEN EmptyDict ELSE loaded.value

\* x.get(key): only a mapping has the method; the result is None (NaN in
\* the column) when the key is missing
dict_get(x, key) ==
    IF x.kind # "dict" THEN Raise("AttributeError")
    ELSE IF \E kv \in x.items : kv[1] = key
         THEN Return((CHOOSE kv \in x.items : kv[1] = key)[2])
    ELSE Return(NaN)

----------------------------------------------------------------------------
(* pd.to_datetime(..., errors='coerce') on ISO dates YYYY-MM-DD *)

DaysInMonth(y, m) ==
    IF m \in {4, 6, 9, 11} THEN 30
    ELSE IF m = 2
         THEN IF (y % 4 = 0 /\ y % 100 # 0) \/ y % 400 = 0 THEN 29 ELSE 28
    ELSE 31

\* a date is the number yyyymmdd, which orders as the calendar does; NaT is
\* the absent numeric cell
NaT == NaNNum

to_datetime(s) ==
    IF isna(s) THEN NaT
    ELSE IF ~(/\ Len(s) = 10
              /\ s[5] = "-"
              /\ s[8] = "-"
              /\ \A n \in {1, 2, 3, 4, 6, 7, 9, 10} : s[n] \in Digit)
         THEN NaT
    ELSE LET y == ToInt(SubSeq(s, 1, 4))
             m == ToInt(SubSeq(s, 6, 7))
             d == ToInt(SubSeq(s, 9, 10))
         IN  IF m \in 1..12 /\ d \in 1..DaysInMonth(y, m)
             THEN <<y * 10000 + m * 100 + d>>
             ELSE NaT

----------------------------------------------------------------------------
(* DataFrames: [columns: the set of column names, rows: the sequence of    *)
(* rows, each a function from the column names to cells]                   *)

DataFrame == [columns |-> {}, rows |-> <<>>]

empty(df) == Len(df.rows) = 0 \/ df.columns = {}

\* df[col] = vals
SetColumn(df, col, vals) ==
    [columns |-> df.columns \cup {col},
     rows |-> [i \in 1..Len(df.rows) |-> (col :> vals[i]) @@ df.rows[i]]]

Column(df, col) == [i \in 1..Len(df.rows) |-> df.rows[i][col]]

Sector == <<"S", "e", "c", "t", "o", "r">>

clean_and_process_data(raw) ==
    IF empty(raw) THEN Return(DataFrame)
    ELSE
    LET n == Len(raw.rows)
        dates == [i \in 1..n |-> to_datetime(raw.rows[i]["Job Posting Date"])]
        parsed == [i \in 1..n |->
                      parse_company_profile(raw.rows[i]["Company Profile"])]
        sectors == [i \in 1..n |-> dict_get(parsed[i], Sector)]
        minExp == [i \in 1..n |->
                      extract_min_experience(raw.rows[i]["Experience"])]
        minSal == [i \in 1..n |->
                      extract_min_salary(raw.rows[i]["Salary Range"])]
        df1 == SetColumn(raw, "Job Posting Date", dates)
        df2 == SetColumn(df1, "Company Profile_Parsed", parsed)
        df3 == SetColumn(df2, "Company Sector",
                         [i \in 1..n |-> sectors[i].value])
        df4 == SetColumn(df3, "Min Experience Years", minExp)
        df5 == SetColumn(df4, "Min Salary USD", minSal)
    IN  IF \E i \in 1..n : sectors[i].raised
        THEN Raise("AttributeError")
        ELSE Return(df5)

----------------------------------------------------------------------------
(* The country sets of the two scenario endpoints. A country name is a     *)
(* text cell: Scenario A tests its first character.                        *)

\* asian_countries of get_top_10_companies
asian_countries_top_10 ==
    {<<"A", "f", "g", "h", "a", "n", "i", "s", "t", "a", "n">>,
     <<"A", "r", "m", "e", "n", "i", "a">>,
     <<"A", "z", "e", "r", "b", "a", "i", "j", "a", "n">>,
     <<"B", "a", "h", "r", "a", "i", "n">>,
     <<"B", "a", "n", "g", "l", "a", "d", "e", "s", "h">>,
     <<"B", "h", "u", "t", "a", "n">>,
     <<"B", "r", "u", "n", "e", "i">>,
     <<"C", "a", "m", "b", "o", "d", "i", "a">>,
     <<"C", "h", "i", "n", "a">>,
     <<"C", "y", "p", "r", "u", "s">>,
     <<"G", "e", "o", "r", "g", "i", "a">>,
     <<"I", "n", "d", "i", "a">>,
     <<"I", "n", "d", "o", "n", "e", "s", "i", "a">>,
     <<"I", "r", "a", "n">>,
     <<"I", "r", "a", "q">>,
     <<"I", "s", "r", "a", "e", "l">>,
     <<"J", "a", "p", "a", "n">>,
     <<"J", "o", "r", "d", "a", "n">>,
     <<"K", "a", "z", "a", "k", "h", "s", "t", "a", "n">>,
     <<"K", "u", "w", "a", "i", "t">>,
     <<"K", "y", "r", "g", "y", "z", "s", "t", "a", "n">>,
     <<"L", "a", "o", "s">>,
     <<"L", "e", "b", "a", "n", "o", "n">>,
     <<"M", "a", "l", "a", "y", "s", "i", "a">>,
     <<"M", "a", "l", "d", "i", "v", "e", "s">>,
     <<"M", "o", "n", "g", "o", "l", "i", "a">>,
     <<"M", "y", "a", "n", "m", "a", "r">>,
     <<"N", "e", "p", "a", "l">>,
     <<"N", "o", "r", "t", "h", " ", "K", "o", "r", "e", "a">>,
     <<"O", "m", "a", "n">>,
     <<"P", "a", "k", "i", "s", "t", "a", "n">>,
     <<"P", "a", "l", "e", "s", "t", "i", "n", "e">>,
     <<"P", "h", "i", "l", "i", "p", "p", "i", "n", "e", "s">>,
     <<"Q", "a", "t", "a", "r">>,
     <<"R", "u", "s", "s", "i", "a">>,
     <<"S", "a", "u", "d", "i", " ", "A", "r", "a", "b", "i", "a">>,
     <<"S", "i", "n", "g", "a", "p", "o", "r", "e">>,
     <<"S", "o", "u", "t", "h", " ", "K", "o", "r", "e", "a">>,
     <<"S", "r", "i", " ", "L", "a", "n", "k", "a">>,
     <<"S", "y", "r", "i", "a">>,
     <<"T", "a", "i", "w", "a", "n">>,
     <<"T", "a", "j", "i", "k", "i", "s", "t", "a", "n">>,
     <<"T", "h", "a", "i", "l", "a", "n", "d">>,
     <<"T", "i", "m", "o", "r", "-", "L", "e", "s", "t", "e">>,
     <<"T", "u", "r", "k", "e", "y">>,
     <<"T", "u", "r", "k", "m", "e", "n", "i", "s", "t", "a", "n">>,
     <<"U", "n", "i", "t", "e", "d", " ", "A", "r", "a", "b", " ", "E", "m", "i", "r", "a", "t", "e", "s">>,
     <<"U", "z", "b", "e", "k", "i", "s", "t", "a", "n">>,
     <<"V", "i", "e", "t", "n", "a", "m">>,
     <<"Y", "e", "m", "e", "n">>}

\* a variant for comparison: the copy of the set in get_company_size_vs_name has lost Yemen
asian_countries_company_size_short ==
    {<<"A", "f", "g", "h", "a", "n", "i", "s", "t", "a", "n">>,
     <<"A", "r", "m", "e", "n", "i", "a">>,
     <<"A", "z", "e", "r", "b", "a", "i", "j", "a", "n">>,
     <<"B", "a", "h", "r", "a", "i", "n">>,
     <<"B", "a", "n", "g", "l", "a", "d", "e", "s", "h">>,
     <<"B", "h", "u", "t", "a", "n">>,
     <<"B", "r", "u", "n", "e", "i">>,
     <<"C", "a", "m", "b", "o", "d", "i", "a">>,
     <<"C", "h", "i", "n", "a">>,
     <<"C", "y", "p", "r", "u", "s">>,
     <<"G", "e", "o", "r", "g", "i", "a">>,
     <<"I", "n", "d", "i", "a">>,
     <<"I", "n", "d", "o", "n", "e", "s", "i", "a">>,
     <<"I", "r", "a", "n">>,
     <<"I", "r", "a", "q">>,
     <<"I", "s", "r", "a", "e", "l">>,
     <<"J", "a", "p", "a", "n">>,
     <<"J", "o", "r", "d", "a", "n">>,
     <<"K", "a", "z", "a", "k", "h", "s", "t", "a", "n">>,
     <<"K", "u", "w", "a", "i", "t">>,
     <<"K", "y", "r", "g", "y", "z", "s", "t", "a", "n">>,
     <<"L", "a", "o", "s">>,
     <<"L", "e", "b", "a", "n", "o", "n">>,
     <<"M", "a", "l", "a", "y", "s", "i", "a">>,
     <<"M", "a", "l", "d", "i", "v", "e", "s">>,
     <<"M", "o", "n", "g", "o", "l", "i", "a">>,
     <<"M", "y", "a", "n", "m", "a", "r">>,
     <<"N", "e", "p", "a", "l">>,
     <<"N", "o", "r", "t", "h", " ", "K", "o", "r", "e", "a">>,
     <<"O", "m", "a", "n">>,
     <<"P", "a", "k", "i", "s", "t", "a", "n">>,
     <<"P", "a", "l", "e", "s", "t", "i", "n", "e">>,
     <<"P", "h", "i", "l", "i", "p", "p", "i", "n", "e", "s">>,
     <<"Q", "a", "t", "a", "r">>,
     <<"R", "u", "s", "s", "i", "a">>,
     <<"S", "a", "u", "d", "i", " ", "A", "r", "a", "b", "i", "a">>,
     <<"S", "i", "n", "g", "a", "p", "o", "r", "e">>,
     <<"S", "o", "u", "t", "h", " ", "K", "o", "r", "e", "a">>,
     <<"S", "r", "i", " ", "L", "a", "n", "k", "a">>,
     <<"S", "y", "r", "i", "a">>,
     <<"T", "a", "i", "w", "a", "n">>,
     <<"T", "a", "j", "i", "k", "i", "s", "t", "a", "n">>,
     <<"T", "h", "a", "i", "l", "a", "n", "d">>,
     <<"T", "i", "m", "o", "r", "-", "L", "e", "s", "t", "e">>,
     <<"T", "u", "r", "k", "e", "y">>,
     <<"T", "u", "r", "k", "m", "e", "n", "i", "s", "t", "a", "n">>,
     <<"U", "n", "i", "t", "e", "d", " ", "A", "r", "a", "b", " ", "E", "m", "i", "r", "a", "t", "e", "s">>,
     <<"U", "z", "b", "e", "k", "i", "s", "t", "a", "n">>,
     <<"V", "i", "e", "t", "n", "a", "m">>}

\* asian_countries of get_company_size_vs_name
asian_countries_company_size ==
    {<<"A", "f", "g", "h", "a", "n", "i", "s", "t", "a", "n">>,
     <<"A", "r", "m", "e", "n", "i", "a">>,
     <<"A", "z", "e", "r", "b", "a", "i", "j", "a", "n">>,
     <<"B", "a", "h", "r", "a", "i", "n">>,
     <<"B", "a", "n", "g", "l", "a", "d", "e", "s", "h">>,
     <<"B", "h", "u", "t", "a", "n">>,
     <<"B", "r", "u", "n", "e", "i">>,
     <<"C", "a", "m", "b", "o", "d", "i", "a">>,
     <<"C", "h", "i", "n", "a">>,
     <<"C", "y", "p", "r", "u", "s">>,
     <<"G", "e", "o", "r", "g", "i", "a">>,
     <<"I", "n", "d", "i", "a">>,
     <<"I", "n", "d", "o", "n", "e", "s", "i", "a">>,
     <<"I", "r", "a", "n">>,
     <<"I", "r", "a", "q">>,
     <<"I", "s", "r", "a", "e", "l">>,
     <<"J", "a", "p", "a", "n">>,
     <<"J", "o", "r", "d", "a", "n">>,
     <<"K", "a", "z", "a", "k", "h", "s", "t", "a", "n">>,
     <<"K", "u", "w", "a", "i", "t">>,
     <<"K", "y", "r", "g", "y", "z", "s", "t", "a", "n">>,
     <<"L", "a", "o", "s">>,
     <<"L", "e", "b", "a", "n", "o", "n">>,
     <<"M", "a", "l", "a", "y", "s", "i", "a">>,
     <<"M", "a", "l", "d", "i", "v", "e", "s">>,
     <<"M", "o", "n", "g", "o", "l", "i", "a">>,
     <<"M", "y", "a", "n", "m", "a", "r">>,
     <<"N", "e", "p", "a", "l">>,
     <<"N", "o", "r", "t", "h", " ", "K", "o", "r", "e", "a">>,
     <<"O", "m", "a", "n">>,
     <<"P", "a", "k", "i", "s", "t", "a", "n">>,
     <<"P", "a", "l", "e", "s", "t", "i", "n", "e">>,
     <<"P", "h", "i", "l", "i", "p", "p", "i", "n", "e", "s">>,
     <<"Q", "a", "t", "a", "r">>,
     <<"R", "u", "s", "s", "i", "a">>,
     <<"S", "a", "u", "d", "i", " ", "A", "r", "a", "b", "i", "a">>,
     <<"S", "i", "n", "g", "a", "p", "o", "r", "e">>,
     <<"S", "o", "u", "t", "h", " ", "K", "o", "r", "e", "a">>,
     <<"S", "r", "i", " ", "L", "a", "n", "k", "a">>,
     <<"S", "y", "r", "i", "a">>,
     <<"T", "a", "i", "w", "a", "n">>,
     <<"T", "a", "j", "i", "k", "i", "s", "t", "a", "n">>,
     <<"T", "h", "a", "i", "l", "a", "n", "d">>,
     <<"T", "i", "m", "o", "r", "-", "L", "e", "s", "t", "e">>,
     <<"T", "u", "r", "k", "e", "y">>,
     <<"T", "u", "r", "k", "m", "e", "n", "i", "s", "t", "a", "n">>,
     <<"U", "n", "i", "t", "e", "d", " ", "A", "r", "a", "b", " ", "E", "m", "i", "r", "a", "t", "e", "s">>,
     <<"U", "z", "b", "e", "k", "i", "s", "t", "a", "n">>,
     <<"V", "i", "e", "t", "n", "a", "m">>,
     <<"Y", "e", "m", "e", "n">>}


----------------------------------------------------------------------------
(* Counting and bucketing *)

\* the distinct present values of a column, in first-encountered order
RECURSIVE FirstSeen(_)
FirstSeen(values) ==
    IF values = <<>> THEN <<>>
    ELSE LET front == FirstSeen(SubSeq(values, 1, Len(values) - 1))
             v == values[Len(values)]
         IN  IF v = NA \/ \E i \in 1..Len(front) : front[i] = v
             THEN front ELSE Append(front, v)

CountOf(values, v) == Cardinality({i \in 1..Len(values) : values[i] = v})

\* x goes after every entry whose count is at least its own
InsertByCount(sorted, x) ==
    LET k == Cardinality({i \in 1..Len(sorted) : sorted[i].count >= x.count})
    IN  SubSeq(sorted, 1, k) \o <<x>> \o SubSeq(sorted, k + 1, Len(sorted))

\* sort by descending count, entries of equal count keeping their order
RECURSIVE SortByCount(_)
SortByCount(entries) ==
    IF entries = <<>> THEN <<>>
    ELSE InsertByCount(SortByCount(SubSeq(entries, 1, Len(entries) - 1)),
                       entries[Len(entries)])

\* Series.value_counts() of a column of strings: absent cells are dropped
value_counts(values) ==
    LET seen == FirstSeen(values)
    IN  SortByCount([i \in 1..Len(seen) |->
                        [name |-> seen[i], count |-> CountOf(values, seen[i])]])

\* Series.value_counts() of a categorical column: every category is
\* reported, the unobserved ones with count 0
value_counts_categorical(values, categories) ==
    SortByCount([i \in 1..Len(categories) |->
                    [name |-> categories[i],
                     count |-> CountOf(values, categories[i])]])

\* a variant for comparison: the bands closed on the other side
InBandOtherSide(v, edges, i, right) ==
    IF ~right
    THEN v > edges[i] /\ (i = Len(edges) \/ v <= edges[i + 1])
    ELSE v >= edges[i] /\ (i = Len(edges) \/ v < edges[i + 1])

\* pd.cut(x, bins=edges + [inf], labels=labels, right=right) of one cell:
\* band i runs from edges[i] to edges[i + 1], the last one to infinity
InBand(v, edges, i, right) ==
    IF right
    THEN v > edges[i] /\ (i = Len(edges) \/ v <= edges[i + 1])
    ELSE v >= edges[i] /\ (i = Len(edges) \/ v < edges[i + 1])

cut(x, edges, labels, right) ==
    IF x = NaNNum THEN NA
    ELSE IF \E i \in 1..Len(edges) : InBand(x[1], edges, i, right)
         THEN labels[CHOOSE i \in 1..Len(edges) : InBand(x[1], edges, i, right)]
    ELSE NA

\* pd.merge(full_labels_df, distribution, on=label, how='left').fillna(0):
\* per label, in the order of labels, one record per entry of the
\* distribution with that name, or one record of count 0 when there is none
RECURSIVE merge_left_fillna(_, _)
merge_left_fillna(labels, distribution) ==
    IF labels = <<>> THEN <<>>
    ELSE LET l == labels[Len(labels)]
             hits == SelectSeq(distribution, LAMBDA e : e.name = l)
         IN  merge_left_fillna(SubSeq(labels, 1, Len(labels) - 1), distribution)
             \o (IF hits = <<>> THEN <<[name |-> l, count |-> 0]>> ELSE hits)

\* rename the columns of a distribution, as distribution.columns = [k1, k2]
Renamed(distribution, k1, k2) ==
    [i \in 1..Len(distribution) |->
        (k1 :> distribution[i].name) @@ (k2 :> distribution[i].count)]

Ok(body) == [status |-> 200, body |-> body]

NotReady == [status |-> 500, body |-> <<"Data not loaded or processed yet.">>]

----------------------------------------------------------------------------
(* The endpoints. Each gives the response for the table df it finds in     *)
(* processed_df; get_salary_range_distribution also assigns to it.         *)

HeadRows == 100

\* a variant for comparison: the record sample answers the empty table like the aggregate
\* endpoints do
get_all_job_data_empty_list(df) ==
    IF empty(df) THEN Ok(<<>>)
    ELSE Ok(SubSeq(df.rows, 1, IF Len(df.rows) < HeadRows
                               THEN Len(df.rows) ELSE HeadRows))

get_all_job_data(df) ==
    IF empty(df) THEN NotReady
    ELSE Ok(SubSeq(df.rows, 1, IF Len(df.rows) < HeadRows
                               THEN Len(df.rows) ELSE HeadRows))

\* the three plain categorical distributions share their code
categorical_distribution(df, col, filter) ==
    LET df_filtered ==
            IF filter # "All"
            THEN SelectSeq(df.rows, LAMBDA r : r[col] # NA /\ r[col] = filter)
            ELSE df.rows
    IN  value_counts([i \in 1..Len(df_filtered) |-> df_filtered[i][col]])

get_work_type_distribution(df, work_type_filter) ==
    IF empty(df) THEN Ok(<<>>)
    ELSE Ok(Renamed(categorical_distribution(df, "Work Type", work_type_filter),
                    "name", "count"))

get_qualification_distribution(df, qualification_filter) ==
    IF empty(df) THEN Ok(<<>>)
    ELSE Ok(Renamed(categorical_distribution(df, "Qualifications",
                                             qualification_filter),
                    "qualification", "count"))

get_job_portal_distribution(df) ==
    IF empty(df) THEN Ok(<<>>)
    ELSE Ok(Renamed(categorical_distribution(df, "Job Portal", "All"),
                    "name", "value"))

ExperienceBins == <<-1, 2, 5, 10>>

ExperienceLabels == <<"0-2 Years", "3-5 Years", "6-10 Years", "10+ Years">>

\* a variant for comparison: the merge with the full label list is left out and only the
\* levels that occur are counted
get_experience_distribution_sparse(df, experience_filter) ==
    IF empty(df) THEN Ok(<<>>)
    ELSE
    LET level == [i \in 1..Len(df.rows) |->
                     cut(df.rows[i]["Min Experience Years"],
                         ExperienceBins, ExperienceLabels, TRUE)]
        kept == SelectSeq(level,
                          LAMBDA l : experience_filter # "All" =>
                                         (l # NA /\ l = experience_filter))
    IN  Ok(Renamed(value_counts(kept), "level", "count"))

get_experience_distribution(df, experience_filter) ==
    IF empty(df) THEN Ok(<<>>)
    ELSE
    LET level == [i \in 1..Len(df.rows) |->
                     cut(df.rows[i]["Min Experience Years"],
                         ExperienceBins, ExperienceLabels, TRUE)]
        df_filtered ==
            SetColumn(df, "Experience_Level_Category", level)
        rows == IF experience_filter # "All"
                THEN SelectSeq(df_filtered.rows,
                            LAMBDA r :
                                /\ r["Experience_Level_Category"] # NA
                                /\ r["Experience_Level_Category"]
                                       = experience_filter)
                ELSE df_filtered.rows
        distribution ==
            value_counts_categorical(
                [i \in 1..Len(rows) |-> rows[i]["Experience_Level_Category"]],
                ExperienceLabels)
    IN  Ok(Renamed(merge_left_fillna(ExperienceLabels, distribution),
                   "level", "count"))

SalaryBins == <<0, 50000, 75000, 100000, 125000, 150000>>

SalaryLabels == <<"$0-$50K", "$50K-$75K", "$75K-$100K", "$100K-$125K",
                  "$125K-$150K", "$150K+">>

\* processed_df after line 169: the column is assigned to the table itself
salary_range_assign(df) ==
    SetColumn(df, "Salary_Range_Category",
              [i \in 1..Len(df.rows) |->
                  cut(df.rows[i]["Min Salary USD"],
                      SalaryBins, SalaryLabels, FALSE)])

get_salary_range_distribution(df) ==
    IF empty(df) THEN Ok(<<>>)
    ELSE
    LET labelled == salary_range_assign(df)
        distribution ==
            value_counts_categorical(Column(labelled, "Salary_Range_Category"),
                                     SalaryLabels)
    IN  Ok(Renamed(merge_left_fillna(SalaryLabels, distribution),
                   "range", "count"))


\* the elements of a set of numbers in ascending order
RECURSIVE Ascending(_)
Ascending(S) ==
    IF S = {} THEN <<>> ELSE <<Min(S)>> \o Ascending(S \ {Min(S)})

MonthAbbr == <<"Jan", "Feb", "Mar", "Apr", "May", "Jun",
               "Jul", "Aug", "Sep", "Oct", "Nov", "Dec">>

\* strftime('%b %Y') of the month yyyymm
strftime_b_Y(ym) == <<MonthAbbr[ym % 100], ym \div 100>>

get_job_postings_trend(df) ==
    IF empty(df) THEN Ok(<<>>)
    ELSE
    LET dated == SelectSeq(df.rows, LAMBDA r : r["Job Posting Date"] # NaT)
        YearMonth == [i \in 1..Len(dated) |->
                         dated[i]["Job Posting Date"][1] \div 100]
        months == Ascending({YearMonth[i] : i \in 1..Len(dated)})
    IN  Ok([k \in 1..Len(months) |->
               [month |-> strftime_b_Y(months[k]),
                postings |-> Cardinality({i \in 1..Len(dated) :
                                             YearMonth[i] = months[k]})]])

\* Series.astype(str) of a text cell: the absent cell becomes 'nan'
astype_str(x) == IF isna(x) THEN <<"n", "a", "n">> ELSE x

startswith(x, prefix) == Lit(x, 1, prefix)

\* the Timestamp a date column is compared with when the code writes a string
Timestamp(s) == to_datetime(s)[1]

\* (~processed_df['Country'].isin(asian_countries)) of get_top_10_companies
top_10_country_passes(r) == r["Country"] \notin asian_countries_top_10

\* a variant for comparison: latitude <= 10
top_10_filter_latitude_le(r) ==
    /\ r["Role"] = "Data Engineer"
    /\ r["Job Title"] = "Data Scientist"
    /\ r["Preference"] = "Female"
    /\ r["Qualifications"] = "B.Tech"
    /\ top_10_country_passes(r)
    /\ ~startswith(astype_str(r["Country"]), <<"C">>)
    /\ r["latitude"] # NaNNum /\ r["latitude"][1] <= 10
    /\ r["Job Posting Date"] # NaT
    /\ r["Job Posting Date"][1] >= Timestamp(<<"2", "0", "2", "3", "-", "0", "1", "-", "0", "1">>)
    /\ r["Job Posting Date"][1] <= Timestamp(<<"2", "0", "2", "3", "-", "0", "6", "-", "0", "1">>)

\* the row mask of get_top_10_companies; a comparison with an absent cell
\* is False
top_10_filter(r) ==
    /\ r["Role"] = "Data Engineer"
    /\ r["Job Title"] = "Data Scientist"
    /\ r["Preference"] = "Female"
    /\ r["Qualifications"] = "B.Tech"
    /\ top_10_country_passes(r)
    /\ ~startswith(astype_str(r["Country"]), <<"C">>)
    /\ r["latitude"] # NaNNum /\ r["latitude"][1] < 10
    /\ r["Job Posting Date"] # NaT
    /\ r["Job Posting Date"][1] >= Timestamp(<<"2", "0", "2", "3", "-", "0", "1", "-", "0", "1">>)
    /\ r["Job Posting Date"][1] <= Timestamp(<<"2", "0", "2", "3", "-", "0", "6", "-", "0", "1">>)

TopN == 10

\* Series.nlargest(n) of counts already in descending order
nlargest(distribution, n) ==
    SubSeq(distribution, 1, IF Len(distribution) < n THEN Len(distribution) ELSE n)

get_top_10_companies(df) ==
    IF empty(df) THEN Ok(<<>>)
    ELSE
    LET filtered_df == SelectSeq(df.rows, top_10_filter)
    IN  IF filtered_df = <<>> THEN Ok(<<>>)
        ELSE Ok(Renamed(
                 nlargest(value_counts([i \in 1..Len(filtered_df) |->
                                           filtered_df[i]["Company"]]), TopN),
                 "Company", "Count"))

\* (processed_df['Country'].isin(asian_countries)) of get_company_size_vs_name
company_size_country_passes(r) == r["Country"] \in asian_countries_company_size

company_size_filter(r) ==
    /\ r["Company Size"] # NaNNum /\ r["Company Size"][1] < 50000
    /\ r["Job Title"] = "Mechanical Engineer"
    /\ r["Min Experience Years"] # NaNNum /\ r["Min Experience Years"][1] > 5
    /\ company_size_country_passes(r)
    /\ r["Min Salary USD"] # NaNNum /\ r["Min Salary USD"][1] > 50000
    /\ r["Work Type"] \in {"Part-Time", "Full-Time"}
    /\ r["Preference"] = "Male"
    /\ r["Job Portal"] = "Idealist"

\* DataFrame.drop_duplicates(subset=['Company']): the first row per company
drop_duplicates_company(rows) ==
    LET keep == {i \in 1..Len(rows) :
                    \A j \in 1..(i - 1) : rows[j]["Company"] # rows[i]["Company"]}
    IN  [k \in 1..Cardinality(keep) |->
            rows[CHOOSE i \in keep : Cardinality({j \in keep : j <= i}) = k]]

get_company_size_vs_name(df) ==
    IF empty(df) THEN Ok(<<>>)
    ELSE
    LET filtered_df == SelectSeq(df.rows, company_size_filter)
        result == drop_duplicates_company(filtered_df)
    IN  IF filtered_df = <<>> THEN Ok(<<>>)
        ELSE Ok([i \in 1..Len(result) |->
                    ("Company" :> result[i]["Company"])
                    @@ ("Company Size" :> result[i]["Company Size"])])


----------------------------------------------------------------------------
(* The input tables of the model. A raw row is a function from the column  *)
(* names of job_descriptions.csv to cells, as pd.read_csv delivers them.   *)

RawColumns ==
    {"Role", "Job Title", "Preference", "Qualifications", "Country",
     "latitude", "Job Posting Date", "Company", "Company Size", "Work Type",
     "Job Portal", "Experience", "Salary Range", "Company Profile"}

ProfilePlain == <<"{", Q, "S", "e", "c", "t", "o", "r", Q, ":", Q, "I", "T", Q, "}">>

ProfileQuoted == <<Q, "{", Q, "S", "e", "c", "t", "o", "r", Q, ":", Q, "I", "T", Q, "}", Q>>

ProfileFourQuotes == <<"{", Q, Q, Q, Q, "S", "e", "c", "t", "o", "r", Q, Q, Q, Q, ":", Q, Q, Q, Q, "I", "T", Q, Q, Q, Q, "}">>

ProfileNoSector == <<"{", Q, "C", "i", "t", "y", Q, ":", Q, "X", Q, "}">>

ProfileEmptyObject == <<"{", "}">>

ProfileTruncated == <<"{", Q, "S", "e", "c", "t", "o", "r", Q, ":", Q, "I", "T", Q>>

ProfileOneQuote == <<Q>>

ProfileList == <<"[", "]">>

ProfileNumber == <<"7">>

ProfileQuotedNull == <<Q, "n", "u", "l", "l", Q>>

\* profiles that decode to a mapping or fail to decode
MappingProfiles ==
    {ProfilePlain, ProfileQuoted, ProfileFourQuotes, ProfileNoSector,
     ProfileEmptyObject, ProfileTruncated, ProfileOneQuote, NaN}

\* profiles that decode to a JSON value that is no mapping
NonMappingProfiles == {ProfileList, ProfileNumber, ProfileQuotedNull}

ExperienceTexts ==
    {<<"0", " ", "t", "o", " ", "5">>,
     <<"2", " ", "t", "o", " ", "9">>,
     <<"3", " ", "t", "o", " ", "8">>,
     <<"5", " ", "t", "o", " ", "9">>,
     <<"6", " ", "t", "o", " ", "1", "2">>,
     <<"1", "0", " ", "t", "o", " ", "1", "5">>,
     <<"1", "1", " ", "t", "o", " ", "1", "5">>,
     <<"5", " ", "T", "O", " ", "9">>, <<"F", "r", "e", "s", "h", "e", "r">>, NaN}

SalaryTexts ==
    {<<"$", "0", "K", "-", "$", "4", "0", "K">>,
     <<"$", "4", "9", "K", "-", "$", "6", "0", "K">>,
     <<"$", "5", "0", "K", "-", "$", "1", "0", "0", "K">>,
     <<"$", "6", "0", "K", "-", "$", "9", "0", "K">>,
     <<"$", "7", "4", "K", "-", "$", "8", "0", "K">>,
     <<"$", "7", "5", "K", "-", "$", "8", "0", "K">>,
     <<"$", "1", "0", "0", "K", "-", "$", "1", "1", "0", "K">>,
     <<"$", "1", "2", "5", "K", "-", "$", "1", "3", "0", "K">>,
     <<"$", "1", "4", "9", "K", "-", "$", "1", "6", "0", "K">>,
     <<"$", "1", "5", "0", "K", "-", "$", "2", "0", "0", "K">>,
     <<"5", "0", "K">>, NaN}

DateTexts ==
    {<<"2", "0", "2", "2", "-", "1", "2", "-", "3", "1">>,
     <<"2", "0", "2", "3", "-", "0", "1", "-", "0", "1">>,
     <<"2", "0", "2", "3", "-", "0", "3", "-", "1", "5">>,
     <<"2", "0", "2", "3", "-", "0", "6", "-", "0", "1">>,
     <<"2", "0", "2", "3", "-", "0", "6", "-", "0", "2">>,
     <<"s", "o", "o", "n">>, NaN}

\* a row that satisfies every predicate of get_top_10_companies
RowA ==
    ("Role" :> "Data Engineer") @@ ("Job Title" :> "Data Scientist")
    @@ ("Preference" :> "Female") @@ ("Qualifications" :> "B.Tech")
    @@ ("Country" :> <<"B", "r", "a", "z", "i", "l">>) @@ ("latitude" :> <<9>>)
    @@ ("Job Posting Date" :> <<"2", "0", "2", "3", "-", "0", "3", "-", "1", "5">>)
    @@ ("Company" :> "Acme") @@ ("Company Size" :> <<40000>>)
    @@ ("Work Type" :> "Full-Time") @@ ("Job Portal" :> "Idealist")
    @@ ("Experience" :> <<"3", " ", "t", "o", " ", "8">>)
    @@ ("Salary Range" :> <<"$", "5", "0", "K", "-", "$", "1", "0", "0", "K">>)
    @@ ("Company Profile" :> ProfilePlain)

\* a row that satisfies every predicate of get_company_size_vs_name
RowB ==
    ("Role" :> "Design Engineer") @@ ("Job Title" :> "Mechanical Engineer")
    @@ ("Preference" :> "Male") @@ ("Qualifications" :> "M.Tech")
    @@ ("Country" :> <<"I", "n", "d", "i", "a">>) @@ ("latitude" :> <<20>>)
    @@ ("Job Posting Date" :> <<"2", "0", "2", "2", "-", "1", "2", "-", "3", "1">>)
    @@ ("Company" :> "Globex") @@ ("Company Size" :> <<40000>>)
    @@ ("Work Type" :> "Part-Time") @@ ("Job Portal" :> "Idealist")
    @@ ("Experience" :> <<"6", " ", "t", "o", " ", "1", "2">>)
    @@ ("Salary Range" :> <<"$", "6", "0", "K", "-", "$", "9", "0", "K">>)
    @@ ("Company Profile" :> ProfileFourQuotes)

\* row with the cell of column col replaced by v
With(row, col, v) == (col :> v) @@ row

RawTable(rows) == [columns |-> RawColumns, rows |-> rows]

\* the sequences over S of the lengths lo to hi
SeqsOfLen(S, lo, hi) ==
    UNION {[1..n -> S] : n \in lo..hi}


----------------------------------------------------------------------------
(* Dispatch of a request to its endpoint *)

Requests ==
    {<<"job_data", "">>,
     <<"work_type_distribution", "All">>,
     <<"work_type_distribution", "Full-Time">>,
     <<"qualification_distribution", "All">>,
     <<"qualification_distribution", "B.Tech">>,
     <<"experience_distribution", "All">>,
     <<"experience_distribution", "0-2 Years">>,
     <<"experience_distribution", "10+ Years">>,
     <<"experience_distribution", "Senior">>,
     <<"salary_range_distribution", "">>,
     <<"job_portal_distribution", "">>,
     <<"job_postings_trend", "">>,
     <<"top_10_companies", "">>,
     <<"company_size_vs_name", "">>}

\* the response of endpoint ep, called with query argument arg on table df
Response(ep, arg, df) ==
    CASE ep = "job_data" -> get_all_job_data(df)
      [] ep = "work_type_distribution" -> get_work_type_distribution(df, arg)
      [] ep = "qualification_distribution" ->
             get_qualification_distribution(df, arg)
      [] ep = "experience_distribution" -> get_experience_distribution(df, arg)
      [] ep = "salary_range_distribution" -> get_salary_range_distribution(df)
      [] ep = "job_portal_distribution" -> get_job_portal_distribution(df)
      [] ep = "job_postings_trend" -> get_job_postings_trend(df)
      [] ep = "top_10_companies" -> get_top_10_companies(df)
      [] ep = "company_size_vs_name" -> get_company_size_vs_name(df)

\* processed_df after endpoint ep has run on it
TableAfter(ep, df) ==
    IF ep = "salary_range_distribution" /\ ~empty(df)
    THEN salary_range_assign(df)
    ELSE df

NoResponse == [endpoint |-> "none", arg |-> "", response |-> Ok(<<>>)]

----------------------------------------------------------------------------
(* Specification of the normalization pipeline alone *)

MaxRows == 2

CleanRows ==
    {With(RowA, "Company Profile", p) :
        p \in MappingProfiles \cup NonMappingProfiles}
    \cup {With(RowA, "Experience", e) : e \in ExperienceTexts}
    \cup {With(RowA, "Salary Range", x) : x \in SalaryTexts}
    \cup {With(RowA, "Job Posting Date", d) : d \in DateTexts}

CleanTables == {RawTable(rows) : rows \in SeqsOfLen(CleanRows, 0, MaxRows)}

CleanInit ==
    /\ ServerQuiet
    /\ fn_arg \in CleanTables
    /\ fn_ret = Idle

CleanCall ==
    /\ ~fn_ret.done
    /\ fn_ret' = [done |-> TRUE, value |-> clean_and_process_data(fn_arg)]
    /\ UNCHANGED <<serverVars, fn_arg>>

SpecClean == CleanInit /\ [][CleanCall]_vars

\* C5: for every raw table clean_and_process_data completes without raising
\* and yields a table with as many rows as the raw input, in the same order;
\* a Company Profile that cannot be decoded, or that decodes to a value that
\* is no mapping, leaves only the Company Sector of its own row absent.
C5_NeverAborts ==
    fn_ret.done =>
        /\ ~fn_ret.value.raised
        /\ Len(fn_ret.value.value.rows) = Len(fn_arg.rows)
        /\ \A i \in 1..Len(fn_arg.rows) :
              /\ \A c \in RawColumns \ {"Job Posting Date"} :
                    fn_ret.value.value.rows[i][c] = fn_arg.rows[i][c]
              /\ fn_arg.rows[i]["Company Profile"]
                     \in NonMappingProfiles \cup {ProfileTruncated}
                   => fn_ret.value.value.rows[i]["Company Sector"] = NaN


----------------------------------------------------------------------------
(* Specification of the query endpoints on a built table: the state after  *)
(* a first request has built processed_df from the source, and then        *)
(* requests served one at a time.                                          *)

Countries ==
    asian_countries_top_10 \cup asian_countries_company_size
    \cup {<<"B", "r", "a", "z", "i", "l">>, <<"C", "a", "n", "a", "d", "a">>, <<"C", "h", "i", "l", "e">>, NaN}

\* RowA and RowB with one cell changed
WideRows ==
    {RowA, RowB}
    \cup {With(RowA, "Role", v) : v \in {"Data Analyst", NA}}
    \cup {With(RowA, "Job Title", v) : v \in {"Mechanical Engineer", NA}}
    \cup {With(RowA, "Preference", v) : v \in {"Male", NA}}
    \cup {With(RowA, "Qualifications", v) : v \in {"M.Tech", NA}}
    \cup {With(RowA, "Country", v) : v \in Countries}
    \cup {With(RowA, "latitude", v) : v \in {<<10>>, <<11>>, NaNNum}}
    \cup {With(RowA, "Job Posting Date", v) : v \in DateTexts}
    \cup {With(RowA, "Experience", v) : v \in ExperienceTexts}
    \cup {With(RowA, "Salary Range", v) : v \in SalaryTexts}
    \cup {With(RowB, "Company Size", v) : v \in {<<49999>>, <<50000>>, NaNNum}}
    \cup {With(RowB, "Job Title", v) : v \in {"Data Scientist"}}
    \cup {With(RowB, "Experience", v) : v \in ExperienceTexts}
    \cup {With(RowB, "Country", v) : v \in Countries}
    \cup {With(RowB, "Salary Range", v) : v \in SalaryTexts}
    \cup {With(RowB, "Work Type", v) : v \in {"Full-Time", "Contract", NA}}
    \cup {With(RowB, "Preference", v) : v \in {"Female"}}
    \cup {With(RowB, "Job Portal", v) : v \in {"Indeed"}}

\* the rows of the tables of more than one row
CoreRows ==
    {RowA, RowB,
     With(RowA, "Company", "Globex"),
     With(RowA, "latitude", <<10>>),
     With(RowA, "Experience", <<"1", "1", " ", "t", "o", " ", "1", "5">>),
     With(RowA, "Salary Range", NaN),
     With(RowB, "Company Size", <<30000>>),
     With(RowB, "Salary Range", <<"$", "1", "5", "0", "K", "-", "$", "2", "0", "0", "K">>)}

QueryTables ==
    {RawTable(rows) : rows \in SeqsOfLen(WideRows, 1, 1)
                              \cup SeqsOfLen(CoreRows, 2, MaxRows)}

\* the server once its first request has built the table from source
Built(source) ==
    /\ csv = [state |-> "ok", table |-> source]
    /\ processed_df = clean_and_process_data(source).value
    /\ pc = <<"done">>
    /\ df_raw = <<DataFrame>>
    /\ resp = <<NoResponse>>
    /\ nreq = 1
    /\ reads = 1
    /\ builds = 1
    /\ everReadable = TRUE
    /\ failedTrigger = FALSE

QueryInit ==
    /\ \E source \in QueryTables : Built(source)
    /\ fn_arg = <<>>
    /\ fn_ret = Idle

\* one request served from start to end: the hook finds the table built
\* and does nothing, the endpoint answers
Query ==
    \E rq \in Requests :
        /\ ~empty(processed_df)
        /\ resp' = <<[endpoint |-> rq[1], arg |-> rq[2],
                      response |-> Response(rq[1], rq[2], processed_df)]>>
        /\ processed_df' = TableAfter(rq[1], processed_df)
        /\ UNCHANGED <<csv, pc, df_raw, nreq, reads, builds, everReadable,
                       failedTrigger, fn_arg, fn_ret>>

SpecQuery == QueryInit /\ [][Query]_vars


----------------------------------------------------------------------------
(* C7, C8: the bucketed distributions *)

\* the experience band declared for a cell of Min Experience Years:
\* (-1,2], (2,5], (5,10], (10,inf); no band for an absent cell
DeclaredExperienceBand(x) ==
    IF x = NaNNum THEN NA
    ELSE IF -1 < x[1] /\ x[1] <= 2 THEN "0-2 Years"
    ELSE IF 2 < x[1] /\ x[1] <= 5 THEN "3-5 Years"
    ELSE IF 5 < x[1] /\ x[1] <= 10 THEN "6-10 Years"
    ELSE IF 10 < x[1] THEN "10+ Years"
    ELSE NA

\* the salary band declared for a cell of Min Salary USD: [0,50000),
\* [50000,75000), [75000,100000), [100000,125000), [125000,150000),
\* [150000,inf); no band for an absent cell
DeclaredSalaryBand(x) ==
    IF x = NaNNum THEN NA
    ELSE IF 0 <= x[1] /\ x[1] < 50000 THEN "$0-$50K"
    ELSE IF 50000 <= x[1] /\ x[1] < 75000 THEN "$50K-$75K"
    ELSE IF 75000 <= x[1] /\ x[1] < 100000 THEN "$75K-$100K"
    ELSE IF 100000 <= x[1] /\ x[1] < 125000 THEN "$100K-$125K"
    ELSE IF 125000 <= x[1] /\ x[1] < 150000 THEN "$125K-$150K"
    ELSE IF 150000 <= x[1] THEN "$150K+"
    ELSE NA

DeclaredExperienceLabels == {"0-2 Years", "3-5 Years", "6-10 Years", "10+ Years"}

DeclaredSalaryLabels ==
    {"$0-$50K", "$50K-$75K", "$75K-$100K", "$100K-$125K", "$125K-$150K",
     "$150K+"}

\* the rows of the table in experience band l that the filter f lets through
ExperienceRows(l, f) ==
    {i \in 1..Len(processed_df.rows) :
        /\ DeclaredExperienceBand(processed_df.rows[i]["Min Experience Years"]) = l
        /\ f \in {"All", l}}

SalaryRows(l) ==
    {i \in 1..Len(processed_df.rows) :
        DeclaredSalaryBand(processed_df.rows[i]["Min Salary USD"]) = l}

Answers(ep) == {t \in DOMAIN resp : resp[t].endpoint = ep}

\* C7: on a non-empty table and for every filter value, the experience
\* distribution holds each of the four declared labels exactly once and the
\* salary distribution each of the six declared labels exactly once, with
\* count 0 for every label that matched no row.
C7_EveryLabelOnce ==
    /\ \A t \in Answers("experience_distribution") :
          LET body == resp[t].response.body
          IN  /\ Len(body) = Cardinality(DeclaredExperienceLabels)
              /\ \A l \in DeclaredExperienceLabels :
                    /\ Cardinality({i \in 1..Len(body) : body[i].level = l}) = 1
                    /\ ExperienceRows(l, resp[t].arg) = {} =>
                           \A i \in 1..Len(body) :
                               body[i].level = l => body[i].count = 0
    /\ \A t \in Answers("salary_range_distribution") :
          LET body == resp[t].response.body
          IN  /\ Len(body) = Cardinality(DeclaredSalaryLabels)
              /\ \A l \in DeclaredSalaryLabels :
                    /\ Cardinality({i \in 1..Len(body) : body[i].range = l}) = 1
                    /\ SalaryRows(l) = {} =>
                           \A i \in 1..Len(body) :
                               body[i].range = l => body[i].count = 0

\* an experience distribution filtered by a label that is not declared has
\* been served: four entries, all of count 0
C7_Witness ==
    \E t \in Answers("experience_distribution") :
        /\ resp[t].arg = "Senior"
        /\ Len(resp[t].response.body) = 4
        /\ \A i \in 1..4 : resp[t].response.body[i].count = 0

\* C8: each entry of the experience distribution counts exactly the rows
\* whose Min Experience Years lies in its right-closed band (0 and 2 in
\* '0-2 Years', 5 in '3-5 Years', 10 in '6-10 Years'), each entry of the
\* salary distribution exactly the rows whose Min Salary USD lies in its
\* left-closed band (50000 in '$50K-$75K', 150000 in '$150K+'); a row with an
\* absent value is counted in no band.
C8_DeclaredBands ==
    /\ \A t \in Answers("experience_distribution") :
          \A i \in 1..Len(resp[t].response.body) :
              resp[t].response.body[i].count
                  = Cardinality(ExperienceRows(resp[t].response.body[i].level,
                                               resp[t].arg))
    /\ \A t \in Answers("salary_range_distribution") :
          \A i \in 1..Len(resp[t].response.body) :
              resp[t].response.body[i].count
                  = Cardinality(SalaryRows(resp[t].response.body[i].range))

\* a salary distribution has been served for a table with a row of
\* Min Salary USD 150000 and another without a salary: '$150K+' counts one
C8_Witness ==
    \E t \in Answers("salary_range_distribution") :
        /\ \E i \in 1..Len(processed_df.rows) :
              processed_df.rows[i]["Min Salary USD"] = <<150000>>
        /\ \E i \in 1..Len(processed_df.rows) :
              processed_df.rows[i]["Min Salary USD"] = NaNNum
        /\ \E i \in 1..Len(resp[t].response.body) :
              /\ resp[t].response.body[i].range = "$150K+"
              /\ resp[t].response.body[i].count = 1

----------------------------------------------------------------------------
(* C9, C10: the scenario endpoints *)

\* every predicate of Scenario A holds of the normalized row r
DeclaredScenarioA(r) ==
    /\ r["Role"] = "Data Engineer"
    /\ r["Job Title"] = "Data Scientist"
    /\ r["Preference"] = "Female"
    /\ r["Qualifications"] = "B.Tech"
    /\ r["Country"] \notin asian_countries_top_10
    /\ isna(r["Country"]) \/ r["Country"][1] # "C"
    /\ r["latitude"] # NaNNum
    /\ r["latitude"][1] < 10
    /\ r["Job Posting Date"] # NaT
    /\ r["Job Posting Date"][1] \in 20230101..20230601

ScenarioARows(company) ==
    {i \in 1..Len(processed_df.rows) :
        /\ DeclaredScenarioA(processed_df.rows[i])
        /\ processed_df.rows[i]["Company"] = company}

\* C9: top_10_companies counts a row exactly when all predicates of
\* Scenario A hold of it together: the answer lists each company with such
\* a row once, with the number of its rows, in descending order of count,
\* and nothing else; it is empty when no row satisfies all predicates.
C9_ScenarioA ==
    \A t \in Answers("top_10_companies") :
        LET body == resp[t].response.body
            companies == {processed_df.rows[i]["Company"] :
                             i \in {j \in 1..Len(processed_df.rows) :
                                       DeclaredScenarioA(processed_df.rows[j])}}
        IN  /\ Len(body) = Cardinality(companies)
            /\ \A c \in companies :
                  \E i \in 1..Len(body) :
                      /\ body[i].Company = c
                      /\ body[i].Count = Cardinality(ScenarioARows(c))
            /\ \A i \in 1..(Len(body) - 1) : body[i].Count >= body[i + 1].Count

\* the table of the one row that satisfies Scenario A has been queried and
\* answered with that row's company, counted once
C9_Witness ==
    \E t \in Answers("top_10_companies") :
        /\ Len(processed_df.rows) = 1
        /\ DeclaredScenarioA(processed_df.rows[1])
        /\ Len(resp[t].response.body) = 1
        /\ resp[t].response.body[1].Company = "Acme"
        /\ resp[t].response.body[1].Count = 1

\* the two scenarios judge the countries of the table consistently: no row
\* passes both country predicates, Scenario A counts no row of a country of
\* the set and Scenario B none of a country outside it
ScenariosDisjointOnCountry ==
    \A i \in 1..Len(processed_df.rows) :
        LET r == processed_df.rows[i]
        IN  /\ ~(company_size_country_passes(r) /\ top_10_country_passes(r))
            /\ r["Country"] \in asian_countries_company_size => ~top_10_filter(r)
            /\ r["Country"] \notin asian_countries_top_10
                   => ~company_size_filter(r)

\* C10 as claimed: both scenarios use the same country set, of exactly 49
\* countries, and no country passes both Scenario B's IN and Scenario A's
\* NOT-IN predicate.
C10_SameSetOf49 ==
    /\ asian_countries_top_10 = asian_countries_company_size
    /\ Cardinality(asian_countries_top_10) = 49
    /\ ScenariosDisjointOnCountry

\* C10 amended: the same, the set having exactly 50 countries.
C10_SameSetOf50 ==
    /\ asian_countries_top_10 = asian_countries_company_size
    /\ Cardinality(asian_countries_top_10) = 50
    /\ ScenariosDisjointOnCountry

\* Scenario B has admitted a row of Yemen, the last country of the set
C10_Witness ==
    \E t \in Answers("company_size_vs_name") :
        /\ Len(processed_df.rows) = 1
        /\ processed_df.rows[1]["Country"] = <<"Y", "e", "m", "e", "n">>
        /\ Len(resp[t].response.body) = 1


----------------------------------------------------------------------------
(* The server: request threads run the before_request hook                 *)
(* load_data_on_startup and then the endpoint. The development server      *)
(* started by app.run serves each request in a thread of its own.          *)

Threads == {1, 2}

MaxRequests == 3

MaxSourceRows == 1

SourceRows == {RowA, RowB, With(RowA, "Company Profile", ProfileNumber)}

\* what job_descriptions.csv may hold; the table of no rows is a file of
\* the header line only
SourceTables == {RawTable(rows) : rows \in SeqsOfLen(SourceRows, 0, MaxSourceRows)}

Init ==
    /\ csv \in [state : {"missing", "unreadable", "ok"}, table : SourceTables]
    /\ processed_df = DataFrame
    /\ pc = [t \in Threads |-> "idle"]
    /\ df_raw = [t \in Threads |-> DataFrame]
    /\ resp = [t \in Threads |-> NoResponse]
    /\ nreq = 0
    /\ reads = 0
    /\ builds = 0
    /\ everReadable = (csv.state = "ok")
    /\ failedTrigger = FALSE
    /\ fn_arg = <<>>
    /\ fn_ret = Idle

\* a request arrives and is given to thread t
Receive(t) ==
    /\ pc[t] \in {"idle", "done"}
    /\ nreq < MaxRequests
    /\ nreq' = nreq + 1
    /\ pc' = [pc EXCEPT ![t] = "before_request"]
    /\ resp' = [resp EXCEPT ![t] = NoResponse]
    /\ UNCHANGED <<csv, processed_df, df_raw, reads, builds, everReadable,
                   failedTrigger, fn_arg, fn_ret>>

\* line 72: if processed_df.empty
CheckEmpty(t) ==
    /\ pc[t] = "before_request"
    /\ pc' = [pc EXCEPT ![t] = IF empty(processed_df) THEN "exists" ELSE "handler"]
    /\ UNCHANGED <<csv, processed_df, df_raw, resp, nreq, reads, builds,
                   everReadable, failedTrigger, fn_arg, fn_ret>>

\* line 74: if os.path.exists(job_data_filename), else the message of line 83
CheckExists(t) ==
    /\ pc[t] = "exists"
    /\ IF csv.state # "missing"
       THEN /\ pc' = [pc EXCEPT ![t] = "read_csv"]
            /\ UNCHANGED failedTrigger
       ELSE /\ pc' = [pc EXCEPT ![t] = "handler"]
            /\ failedTrigger' = TRUE
    /\ UNCHANGED <<csv, processed_df, df_raw, resp, nreq, reads, builds,
                   everReadable, fn_arg, fn_ret>>

\* line 76: df_raw = pd.read_csv(...); an unreadable file raises, which the
\* handler of line 80 catches
ReadCsv(t) ==
    /\ pc[t] = "read_csv"
    /\ reads' = reads + 1
    /\ IF csv.state = "ok"
       THEN /\ df_raw' = [df_raw EXCEPT ![t] = csv.table]
            /\ pc' = [pc EXCEPT ![t] = "clean"]
            /\ UNCHANGED failedTrigger
       ELSE /\ pc' = [pc EXCEPT ![t] = "handler"]
            /\ failedTrigger' = TRUE
            /\ UNCHANGED df_raw
    /\ UNCHANGED <<csv, processed_df, resp, nreq, builds, everReadable,
                   fn_arg, fn_ret>>

\* line 77: processed_df = clean_and_process_data(df_raw); an exception of
\* the pipeline is caught at line 80 and leaves processed_df as it was
Clean(t) ==
    /\ pc[t] = "clean"
    /\ LET result == clean_and_process_data(df_raw[t])
       IN  IF result.raised
           THEN UNCHANGED <<processed_df, builds>>
           ELSE /\ processed_df' = result.value
                /\ builds' = builds + 1
    /\ pc' = [pc EXCEPT ![t] = "handler"]
    /\ df_raw' = [df_raw EXCEPT ![t] = DataFrame]
    /\ UNCHANGED <<csv, resp, nreq, reads, everReadable, failedTrigger,
                   fn_arg, fn_ret>>

\* the endpoint the request is routed to answers
Handler(t) ==
    /\ pc[t] = "handler"
    /\ \E rq \in Requests :
          /\ resp' = [resp EXCEPT ![t] =
                         [endpoint |-> rq[1], arg |-> rq[2],
                          response |-> Response(rq[1], rq[2], processed_df)]]
          /\ processed_df' = TableAfter(rq[1], processed_df)
    /\ pc' = [pc EXCEPT ![t] = "done"]
    /\ UNCHANGED <<csv, df_raw, nreq, reads, builds, everReadable,
                   failedTrigger, fn_arg, fn_ret>>

\* the environment: the operator puts a readable job_descriptions.csv into
\* the backend directory, as the message of line 83 asks
PlaceFile ==
    /\ csv.state # "ok"
    /\ csv' = [csv EXCEPT !.state = "ok"]
    /\ everReadable' = TRUE
    /\ UNCHANGED <<processed_df, pc, df_raw, resp, nreq, reads, builds,
                   failedTrigger, fn_arg, fn_ret>>

Step(t) ==
    \/ Receive(t)
    \/ CheckEmpty(t)
    \/ CheckExists(t)
    \/ ReadCsv(t)
    \/ Clean(t)
    \/ Handler(t)

Next == PlaceFile \/ \E t \in Threads : Step(t)

Spec == Init /\ [][Next]_vars

\* no other thread is inside a request
Alone(t) == \A u \in Threads \ {t} : pc[u] \in {"idle", "done"}

\* a request arrives while no other is being served
ReceiveAlone(t) == Alone(t) /\ Receive(t)

\* the same server when the requests arrive one after the other
NextSeq ==
    \/ PlaceFile
    \/ \E t \in Threads :
          \/ ReceiveAlone(t)
          \/ CheckEmpty(t)
          \/ CheckExists(t)
          \/ ReadCsv(t)
          \/ Clean(t)
          \/ Handler(t)

SpecSeq == Init /\ [][NextSeq]_vars


----------------------------------------------------------------------------
(* C1 - C4: the life of processed_df *)

\* the requests that have read the source and are processing it: each is
\* in the middle of a build of its own
Builders == {t \in Threads : pc[t] = "clean"}

\* the table as built from the source, before or after a salary
\* distribution has labelled it
FullyBuilt(df) ==
    \E built \in {clean_and_process_data(csv.table).value} :
        df \in {built, salary_range_assign(built)}

\* C1: when requests trigger load_data_on_startup concurrently while the
\* table is empty, only one build executes, and every request observes the
\* empty table or the fully built one.
C1_OneBuild ==
    /\ Cardinality(Builders) <= 1
    /\ empty(processed_df) \/ FullyBuilt(processed_df)

\* C2: once the first build has assigned the table, no later trigger of
\* load_data_on_startup reads or processes the source again.
C2_BuiltOnce == [][builds >= 1 => (reads' = reads /\ builds' = builds)]_vars

\* C3: no query changes the shared table: it stays the table the build
\* produced, rows and columns, and no record sample shows a bucket-label
\* column computed by another request.
C3_QueriesDoNotMutate ==
    /\ processed_df = clean_and_process_data(csv.table).value
    /\ \A t \in Answers("job_data") :
          \A i \in 1..Len(resp[t].response.body) :
              "Salary_Range_Category" \notin DOMAIN resp[t].response.body[i]

\* the answer every endpoint gives on the empty table
EmptyAnswer(ep) == IF ep = "job_data" THEN NotReady ELSE Ok(<<>>)

\* a request has been answered from the empty table as C4 demands
AnsweredEmpty(t) ==
    pc[t] = "done" => resp[t].response = EmptyAnswer(resp[t].endpoint)

\* C4 as claimed: once a trigger has found the source missing or
\* unreadable, the table is empty in every later state, every aggregate
\* endpoint answers the empty list with success and the record sample
\* answers 'not ready'.
C4_PermanentlyEmpty ==
    failedTrigger =>
        /\ empty(processed_df)
        /\ \A t \in Threads : AnsweredEmpty(t)

\* C4 amended: the table is empty, and the endpoints answer so, for as long
\* as the source has not been readable since the process started; a later
\* trigger that finds it readable builds the table.
C4_EmptyUntilReadable ==
    ~everReadable =>
        /\ empty(processed_df)
        /\ \A t \in Threads : AnsweredEmpty(t)

\* after a failed trigger, with the source still unavailable, one request
\* has got 'not ready' from the record sample and another the empty list
\* from an aggregate endpoint
C4_Witness ==
    /\ failedTrigger
    /\ ~everReadable
    /\ \E t, u \in Threads :
          /\ pc[t] = "done" /\ pc[u] = "done"
          /\ resp[t].endpoint = "job_data"
          /\ resp[t].response = NotReady
          /\ resp[u].endpoint = "top_10_companies"
          /\ resp[u].response = Ok(<<>>)

====
